---- MODULE Spec2Model ----
(***************************************************************************)
(* Model of server.py: BrowserRequest (request parsing and header lookup), *)
(* LocaleSocket (listening socket and accepted connection) and WebServer   *)
(* (router, get_header, new_client_request and the loop of start).         *)
(*                                                                         *)
(* Text is a sequence of symbols.  The separators the code looks at        *)
(* (" ", "\t", "\r", "\n", ":", "-", "_") are symbols of their own; every  *)
(* other symbol is a run of characters holding none of them ("GET",        *)
(* "/index.html", "curl").  All symbols are ASCII, so a str and its        *)
(* encoded bytes are the same sequence.                                    *)
(***************************************************************************)
EXTENDS Integers, Sequences, FiniteSets, TLC

\* Number of connections the environment offers to accept().
MaxConns == 2
\* Number of header lines after the request line in a received request.
MaxHeaders == 1
\* Number of send() calls a caller of LocaleSocket makes on one connection.
MaxSends == 2

\* Python's None for _socket and for local names not yet bound.
None == "None"
\* Python's None for _connection, which otherwise holds an index into conns.
NoConn == 0
\* What a name of the document root stands for: a file with its content on
\* disk, nothing, or a directory.
File(content) == [kind |-> "file", content |-> content]
Absent == [kind |-> "absent", content |-> <<>>]
Dir == [kind |-> "dir", content |-> <<>>]

\* Result of a call: the exception it raised (None when it returned) and
\* the value it returned.
Return(v) == [exc |-> None, value |-> v]
Raise(e) == [exc |-> e, value |-> <<>>]

---------------------------------------------------------------------------
\* str methods used by BrowserRequest

\* Characters str.strip() removes.
Whitespace == {" ", "\t", "\r", "\n"}

RECURSIVE lstrip(_)
lstrip(s) ==
    IF s # <<>> /\ Head(s) \in Whitespace THEN lstrip(Tail(s)) ELSE s

RECURSIVE rstrip(_)
rstrip(s) ==
    IF s # <<>> /\ s[Len(s)] \in Whitespace
    THEN rstrip(SubSeq(s, 1, Len(s) - 1))
    ELSE s

\* str.strip()
strip(s) == rstrip(lstrip(s))

startswith(s, sep) == Len(s) >= Len(sep) /\ SubSeq(s, 1, Len(sep)) = sep

\* str.split(sep): the pieces between the non-overlapping occurrences of
\* sep, scanned left to right; always at least one piece.
RECURSIVE split(_, _)
split(s, sep) ==
    IF s = <<>> THEN << <<>> >>
    ELSE IF startswith(s, sep)
    THEN << <<>> >> \o split(SubSeq(s, Len(sep) + 1, Len(s)), sep)
    ELSE LET r == split(Tail(s), sep)
         IN  << <<Head(s)>> \o Head(r) >> \o Tail(r)

\* sep.join(parts)
RECURSIVE join(_, _)
join(sep, parts) ==
    IF parts = <<>> THEN <<>>
    ELSE IF Len(parts) = 1 THEN Head(parts)
    ELSE Head(parts) \o sep \o join(sep, Tail(parts))

\* str.capitalize() on one symbol: first character upper case, the rest
\* lower case.
capitalize_word(w) ==
    CASE w \in {"user", "User", "USER"} -> "User"
      [] w \in {"agent", "Agent", "AGENT"} -> "Agent"
      [] w \in {"host", "Host", "HOST"} -> "Host"
      [] OTHER -> w

\* str.lower() on one symbol.
lower_word(w) ==
    CASE w \in {"user", "User", "USER"} -> "user"
      [] w \in {"agent", "Agent", "AGENT"} -> "agent"
      [] w \in {"host", "Host", "HOST"} -> "host"
      [] OTHER -> w

\* str.capitalize() on a string: its first character upper case, all the
\* others lower case.
capitalize(s) ==
    [i \in 1..Len(s) |-> IF i = 1 THEN capitalize_word(s[i]) ELSE lower_word(s[i])]

---------------------------------------------------------------------------
\* BrowserRequest

\* Lines 27-32: the stripped, non-empty lines of the received data.
request_lines(data) ==
    LET raw == split(data, <<"\n">>)
        stripped == [i \in 1..Len(raw) |-> strip(raw[i])]
    IN  SelectSeq(stripped, LAMBDA line: line # <<>>)

\* Line 35: the dict built from the (key, value) pairs in order; a later
\* pair with the same key replaces the earlier one.
header_dict(pairs) ==
    LET keys == {pairs[i][1] : i \in 1..Len(pairs)}
        last(k) == CHOOSE i \in 1..Len(pairs) :
                      /\ pairs[i][1] = k
                      /\ \A j \in (i + 1)..Len(pairs) : pairs[j][1] # k
    IN  [k \in keys |-> pairs[last(k)][2]]

\* BrowserRequest.__init__
BrowserRequest(data) ==
    LET lines == request_lines(data)
    IN  IF lines = <<>> THEN Raise("IndexError")
        ELSE LET first == split(Head(lines), <<" ">>)
                 rest == Tail(lines)
                 pairs == [i \in 1..Len(rest) |-> split(rest[i], <<":", " ">>)]
             IN  IF Len(first) # 3 THEN Raise("ValueError")
                 ELSE IF \E i \in 1..Len(pairs) : Len(pairs[i]) # 2
                 THEN Raise("ValueError")
                 ELSE Return([method |-> first[1],
                              path |-> first[2],
                              http_version |-> first[3],
                              info |-> header_dict(pairs)])

\* The key __getattr__ looks up for an attribute name.
header_key(name) ==
    LET parts == split(name, <<"_">>)
    IN  join(<<"-">>, [i \in 1..Len(parts) |-> capitalize(parts[i])])

\* BrowserRequest.__getattr__: the dict lookup raises KeyError for a missing
\* key, which the handler for IndexError does not catch.
getattr(request, name) ==
    IF header_key(name) \in DOMAIN request.info
    THEN Return(request.info[header_key(name)])
    ELSE Raise("KeyError")

\* The attribute new_client_request reads for its log line.
user_agent == <<"user", "_", "agent">>

---------------------------------------------------------------------------
\* WebServer: router and get_header

STATUSES == (200 :> <<"Ok">>) @@ (404 :> <<"File", " ", "not", " ", "found">>)

router_dict ==
    (<<"/">> :> "index.html") @@ (<<"/index.html">> :> "index.html")
        @@ (<<"/index">> :> "index.html")

\* f.read() of a file opened in text mode: "\r\n" and "\r" are read as "\n".
RECURSIVE read(_)
read(content) ==
    IF content = <<>> THEN <<>>
    ELSE IF Head(content) = "\r"
    THEN <<"\n">> \o read(IF Len(content) > 1 /\ content[2] = "\n"
                          THEN SubSeq(content, 3, Len(content))
                          ELSE Tail(content))
    ELSE <<Head(content)>> \o read(Tail(content))

\* open(os.path.join(homedir, name)) followed by f.read()
open_read(files, name) ==
    IF files[name].kind = "absent" THEN Raise("FileNotFoundError")
    ELSE IF files[name].kind = "dir" THEN Raise("IsADirectoryError")
    ELSE Return(read(files[name].content))

\* with open(...) as f: return f.read(), status
serve(files, name, status) ==
    LET f == open_read(files, name)
    IN  IF f.exc # None THEN f ELSE Return(<<f.value, status>>)

\* Mutant of router: any file present in the document root is served.
router_any_present_file(files, path) ==
    IF path \in DOMAIN router_dict THEN serve(files, router_dict[path], 200)
    ELSE IF path = <<"/about.html">> /\ files["about.html"].kind = "file"
    THEN serve(files, "about.html", 200)
    ELSE serve(files, "404.html", 404)

\* Mutant of router: a directory is answered with its index.html.
router_with_directory_index(files, path) ==
    IF path \in DOMAIN router_dict THEN serve(files, router_dict[path], 200)
    ELSE IF path = <<"/docs">> /\ files["docs/index.html"].kind = "file"
    THEN serve(files, "docs/index.html", 200)
    ELSE serve(files, "404.html", 404)

\* Mutant of router: the alias table is matched without regard to case.
router_case_insensitive(files, path) ==
    IF path \in DOMAIN router_dict THEN serve(files, router_dict[path], 200)
    ELSE IF path = <<"/INDEX.HTML">> THEN serve(files, "index.html", 200)
    ELSE serve(files, "404.html", 404)

\* Mutant of router: a missing 404.html is answered with status 500.
router_500(files, path) ==
    IF path \in DOMAIN router_dict THEN serve(files, router_dict[path], 200)
    ELSE IF files["404.html"].kind = "absent" THEN Return(<<<<>>, 500>>)
    ELSE serve(files, "404.html", 404)

\* WebServer.router
router(files, path) ==
    IF path \in DOMAIN router_dict THEN serve(files, router_dict[path], 200)
    ELSE serve(files, "404.html", 404)

\* The decimal digits an f-string writes for a non-negative int.
RECURSIVE str(_)
str(n) ==
    LET digit == <<"0", "1", "2", "3", "4", "5", "6", "7", "8", "9">>
    IN  IF n < 10 THEN <<digit[n + 1]>>
        ELSE str(n \div 10) \o <<digit[(n % 10) + 1]>>

\* Mutant of get_header: the Server line is written before Content-Type.
get_header_server_first(status_code) ==
    IF status_code \notin DOMAIN STATUSES THEN Raise("KeyError")
    ELSE Return(join(<<"\n">>,
             << <<"HTTP/1.1", " ">> \o str(status_code) \o <<" ">>
                    \o STATUSES[status_code],
                <<"Server", ":", " ", "MyServer">>,
                <<"Content", "-", "Type", ":", " ", "text/html;charset=UTF", "-", "8",
                  "\n", "\n">> >>))

\* WebServer.get_header
get_header(status_code) ==
    IF status_code \notin DOMAIN STATUSES THEN Raise("KeyError")
    ELSE Return(join(<<"\n">>,
             << <<"HTTP/1.1", " ">> \o str(status_code) \o <<" ">>
                    \o STATUSES[status_code],
                <<"Content", "-", "Type", ":", " ", "text/html;charset=UTF", "-", "8">>,
                <<"Server", ":", " ", "MyServer", "\n", "\n">> >>))

---------------------------------------------------------------------------
\* What the environment supplies: the document root and the bytes a client
\* sends.

\* Contents index.html may have on disk.
IndexContents ==
    {<<>>, <<"i">>, <<"i", "\r", "\n", "j">>, <<"i", "\n", "j", "\r">>}

\* Contents 404.html may have on disk.
NotFoundContents == {<<"n">>, <<"n", "\r", "\n">>}

\* The names of the document root the model follows.
FileNames == {"index.html", "404.html", "about.html", "docs", "docs/index.html"}

\* Document roots: index.html and 404.html present or not, another file
\* about.html present or not, and docs absent, a directory without
\* index.html, or a directory with one.
DocumentRoots ==
    {f \in [FileNames -> {File(c) : c \in IndexContents \cup NotFoundContents
                                             \cup {<<"a">>, <<"d">>}}
                            \cup {Absent, Dir}] :
        /\ f["index.html"] \in {File(c) : c \in IndexContents} \cup {Absent}
        /\ f["404.html"] \in {File(c) : c \in NotFoundContents} \cup {Absent}
        /\ f["about.html"] \in {File(<<"a">>), Absent}
        /\ f["docs"] \in {Dir, Absent}
        /\ f["docs/index.html"] \in {File(<<"d">>), Absent}
        /\ (f["docs"] = Absent => f["docs/index.html"] = Absent)}

\* Request paths clients ask for.
Paths ==
    {"/", "/index.html", "/index", "/INDEX.HTML", "/about.html", "/docs",
     "/404.html", "/missing.txt"}

\* First lines: three tokens separated by single spaces for every path, and
\* for "/" also two tokens, a double space, tab separators, and two tokens
\* with a double space between them.
RequestLines ==
    {<<"GET", " ", p, " ", "HTTP/1.1">> : p \in Paths}
        \cup {<<"GET", " ", "/">>,
              <<"GET", " ", " ", "/", " ", "HTTP/1.1">>,
              <<"GET", "\t", "/", "\t", "HTTP/1.1">>,
              <<"GET", " ", " ", "/">>}

\* Header lines: User-Agent as browsers send it and in lower case, a value
\* holding ": ", a line without the space after the colon, and a header
\* with an empty value.
HeaderLines ==
    {<<"User", "-", "Agent", ":", " ", "curl">>,
     <<"user", "-", "agent", ":", " ", "curl">>,
     <<"Host", ":", " ", "a", ":", " ", "b">>,
     <<"Host", ":", "a">>,
     <<"Host", ":", " ">>}

LineEnds == {<<"\n">>, <<"\r", "\n">>}

\* What recv may return: nothing, a blank line, or a first line and up to
\* MaxHeaders header lines, each line ended the same way, then a blank line.
RawData ==
    {<<>>, <<"\r", "\n">>}
        \cup {join(eol, <<first>> \o hs) \o eol \o eol :
                 first \in RequestLines,
                 hs \in UNION {[1..n -> HeaderLines] : n \in 0..MaxHeaders},
                 eol \in LineEnds}

---------------------------------------------------------------------------
\* State

VARIABLES
    fs,            \* the document root (homedir): name -> File(content), Absent or Dir
    _socket,       \* LocaleSocket._socket: None or "socket"
    listener,      \* the listening socket made by open(): "none", "open", "closed"
    _connection,   \* LocaleSocket._connection: NoConn or an index into conns
    conns,         \* every connection accept() returned, in order
    pc,            \* where WebServer.start is
    received,      \* listen's local data: the bytes recv returned last
    cli_request,   \* new_client_request's local cli_request
    body,          \* new_client_request's local body
    status_code,   \* new_client_request's local status_code (0 when unbound)
    header,        \* new_client_request's local header
    exc            \* the exception that left start(): its type and where raised

sock_vars == <<_socket, listener, _connection, conns>>
local_vars == <<cli_request, body, status_code, header>>
vars == <<fs, _socket, listener, _connection, conns, pc, received,
          cli_request, body, status_code, header, exc>>

\* A connection as accept() returns it.
NewConn == [open |-> TRUE, sends |-> 0, closes |-> 0, sent |-> <<>>]

\* cli_request before listen() has returned.
NoRequest == [method |-> <<>>, path |-> <<>>, http_version |-> <<>>, info |-> <<>>]

NoExc == [type |-> None, at |-> None]

Init ==
    /\ fs \in DocumentRoots
    /\ _socket = None
    /\ listener = "none"
    /\ _connection = NoConn
    /\ conns = <<>>
    /\ pc = "start"
    /\ received = <<>>
    /\ cli_request = NoRequest
    /\ body = <<>>
    /\ status_code = 0
    /\ header = <<>>
    /\ exc = NoExc

---------------------------------------------------------------------------
\* LocaleSocket

\* connection.close()
closed(c) == [c EXCEPT !.open = FALSE, !.closes = @ + 1]

\* LocaleSocket.close past its assertion.
close_effect ==
    /\ IF _connection # NoConn
       THEN conns' = [conns EXCEPT ![_connection] = closed(@)]
       ELSE conns' = conns
    /\ _connection' = NoConn
    /\ listener' = "closed"
    /\ _socket' = None

\* LocaleSocket.close; raised is the exception it leaves with, or None.
close(raised) ==
    IF _socket = None
    THEN raised = "AssertionError" /\ UNCHANGED sock_vars
    ELSE raised = None /\ close_effect

\* Mutant of open: the assertion that the socket is closed is missing.
open_no_assert(bind_ok, raised) ==
    IF bind_ok
    THEN /\ raised = None
         /\ _socket' = "socket"
         /\ listener' = "open"
         /\ UNCHANGED <<_connection, conns>>
    ELSE /\ raised = "OSError"
         /\ close_effect

\* Mutant of open: a failed bind is re-raised without self.close().
open_no_release(bind_ok, raised) ==
    IF _socket # None
    THEN raised = "AssertionError" /\ UNCHANGED sock_vars
    ELSE /\ raised = (IF bind_ok THEN None ELSE "OSError")
         /\ _socket' = "socket"
         /\ listener' = "open"
         /\ UNCHANGED <<_connection, conns>>

\* LocaleSocket.open; bind_ok is whether bind() succeeds.
open(bind_ok, raised) ==
    IF _socket # None
    THEN raised = "AssertionError" /\ UNCHANGED sock_vars
    ELSE IF bind_ok
    THEN /\ raised = None
         /\ _socket' = "socket"
         /\ listener' = "open"
         /\ UNCHANGED <<_connection, conns>>
    ELSE \* except: self.close(); raise  -- _socket is set, so close() runs
         /\ raised = "OSError"
         /\ close_effect

\* What LocaleSocket.listen returns or raises when recv returns data.
listen_result(data) ==
    IF _socket = None THEN Raise("AssertionError")
    ELSE BrowserRequest(data)

\* LocaleSocket.listen: the accepted connection replaces _connection.
listen ==
    IF _socket = None
    THEN UNCHANGED sock_vars
    ELSE /\ conns' = Append(conns, NewConn)
         /\ _connection' = Len(conns) + 1
         /\ UNCHANGED <<_socket, listener>>

\* Mutant of respond: the data is sent a second time before the close.
respond_twice(data, send_ok, raised) ==
    IF _socket = None
    THEN raised = "AssertionError" /\ UNCHANGED sock_vars
    ELSE IF _connection = NoConn
    THEN raised = "AttributeError" /\ UNCHANGED sock_vars
    ELSE IF ~conns[_connection].open \/ ~send_ok
    THEN /\ raised = "OSError"
         /\ conns' = [conns EXCEPT ![_connection].sends = @ + 1]
         /\ UNCHANGED <<_socket, listener, _connection>>
    ELSE /\ raised = None
         /\ conns' = [conns EXCEPT ![_connection] =
                         closed([@ EXCEPT !.sends = @ + 2, !.sent = data \o data])]
         /\ UNCHANGED <<_socket, listener, _connection>>

\* Mutant of respond: the connection is left open after the send.
respond_keep_open(data, send_ok, raised) ==
    IF _socket = None
    THEN raised = "AssertionError" /\ UNCHANGED sock_vars
    ELSE IF _connection = NoConn
    THEN raised = "AttributeError" /\ UNCHANGED sock_vars
    ELSE /\ raised = (IF ~conns[_connection].open \/ ~send_ok THEN "OSError" ELSE None)
         /\ conns' = [conns EXCEPT ![_connection].sends = @ + 1,
                                   ![_connection].sent = IF raised = None THEN data ELSE @]
         /\ UNCHANGED <<_socket, listener, _connection>>

\* LocaleSocket.respond; send_ok is whether send() succeeds on an open
\* connection.
respond(data, send_ok, raised) ==
    IF _socket = None
    THEN raised = "AssertionError" /\ UNCHANGED sock_vars
    ELSE IF _connection = NoConn
    THEN raised = "AttributeError" /\ UNCHANGED sock_vars
    ELSE IF ~conns[_connection].open \/ ~send_ok
    THEN \* send() raises: connection.close() is not reached
         /\ raised = "OSError"
         /\ conns' = [conns EXCEPT ![_connection].sends = @ + 1]
         /\ UNCHANGED <<_socket, listener, _connection>>
    ELSE /\ raised = None
         /\ conns' = [conns EXCEPT ![_connection] =
                         closed([@ EXCEPT !.sends = @ + 1, !.sent = data])]
         /\ UNCHANGED <<_socket, listener, _connection>>

---------------------------------------------------------------------------
\* WebServer.start and new_client_request

\* An exception leaves start(): nothing in start or main catches it.
Propagate(type, at) ==
    /\ pc' = "exited"
    /\ exc' = [type |-> type, at |-> at]

\* start(): self.socket.open(), then the loop.
Start ==
    /\ pc = "start"
    /\ \E bind_ok \in BOOLEAN, raised \in {None, "OSError", "AssertionError"} :
          /\ open(bind_ok, raised)
          /\ IF raised = None
             THEN pc' = "listen" /\ UNCHANGED exc
             ELSE Propagate(raised, "open")
    /\ UNCHANGED <<fs, received, cli_request, body, status_code, header>>

\* new_client_request, line 152: cli_request = self.socket.listen()
Listen ==
    /\ pc = "listen"
    /\ Len(conns) < MaxConns
    /\ \E data \in RawData :
          LET r == listen_result(data)
          IN  /\ listen
              /\ received' = data
              /\ IF r.exc = None
                 THEN /\ cli_request' = r.value
                      /\ pc' = "router"
                      /\ UNCHANGED exc
                 ELSE /\ Propagate(r.exc, IF r.exc = "AssertionError"
                                           THEN "listen"
                                           ELSE "BrowserRequest")
                      /\ UNCHANGED cli_request
    /\ UNCHANGED <<fs, body, status_code, header>>

\* new_client_request, lines 153-156: router and get_header
Route ==
    /\ pc = "router"
    /\ LET r == router(fs, cli_request.path)
       IN  IF r.exc # None
           THEN Propagate(r.exc, "router") /\ UNCHANGED <<body, status_code, header>>
           ELSE LET h == get_header(r.value[2])
                IN  /\ body' = r.value[1]
                    /\ status_code' = r.value[2]
                    /\ IF h.exc # None
                       THEN Propagate(h.exc, "get_header") /\ UNCHANGED header
                       ELSE /\ header' = h.value
                            /\ pc' = "respond"
                            /\ UNCHANGED exc
    /\ UNCHANGED <<fs, sock_vars, received, cli_request>>

\* new_client_request, line 157: self.socket.respond((header + body).encode())
Respond ==
    /\ pc = "respond"
    /\ \E send_ok \in BOOLEAN,
          raised \in {None, "OSError", "AssertionError", "AttributeError"} :
          /\ respond(header \o body, send_ok, raised)
          /\ IF raised = None
             THEN pc' = "log" /\ UNCHANGED exc
             ELSE Propagate(raised, "respond")
    /\ UNCHANGED <<fs, received, local_vars>>

\* new_client_request, line 158: the log line reads cli_request.user_agent;
\* then new_client_request returns and the loop calls it again.
Log ==
    /\ pc = "log"
    /\ LET ua == getattr(cli_request, user_agent)
       IN  IF ua.exc # None
           THEN Propagate(ua.exc, "getattr") /\ UNCHANGED <<received, local_vars>>
           ELSE /\ pc' = "listen"
                /\ received' = <<>>
                /\ cli_request' = NoRequest
                /\ body' = <<>>
                /\ status_code' = 0
                /\ header' = <<>>
                /\ UNCHANGED exc
    /\ UNCHANGED <<fs, sock_vars>>

Next == Start \/ Listen \/ Route \/ Respond \/ Log

Spec == Init /\ [][Next]_vars

---------------------------------------------------------------------------
\* Vocabulary of the properties

\* new_client_request holds a connection it has not finished with.
Handling == pc \in {"router", "respond", "log"}

\* router has returned for cli_request.path and its result is in body and
\* status_code.
Routed == pc \in {"respond", "log"}

\* start() was left by the exception raised at `at`.
ExitedAt(at) == pc = "exited" /\ exc.at = at

\* The name of the document root a request path stands for (the path
\* without its leading "/"); "" is the root itself.
NameOf(path) ==
    CASE path = <<"/index.html">> -> "index.html"
      [] path = <<"/about.html">> -> "about.html"
      [] path = <<"/404.html">> -> "404.html"
      [] path = <<"/docs">> -> "docs"
      [] path = <<"/">> -> ""
      [] OTHER -> "no such name"

\* What a request path stands for in the document root.
Entry(path) ==
    IF NameOf(path) = "" THEN Dir
    ELSE IF NameOf(path) \in FileNames THEN fs[NameOf(path)]
    ELSE Absent

\* The index.html of the directory a request path stands for.
IndexOf(path) ==
    IF NameOf(path) = "" THEN fs["index.html"] ELSE fs["docs/index.html"]

\* The text of a file of the document root, as open().read() returns it.
Text(name) == read(fs[name].content)

\* router's result is the given status with the text of the named file,
\* which is present.
Answered(status, name) ==
    /\ status_code = status
    /\ fs[name].kind = "file"
    /\ body = Text(name)

---------------------------------------------------------------------------
C2_ClosedAfterRespond ==
    \A c \in DOMAIN conns : conns[c].sends >= 1 => ~conns[c].open

\* C3 as stated: when the received bytes do not parse, no bytes are sent on
\* the connection and the connection is closed.
C3_UnparsedRequestClosesConnection ==
    ExitedAt("BrowserRequest") =>
        /\ conns[_connection].sends = 0
        /\ conns[_connection].sent = <<>>
        /\ ~conns[_connection].open

\* C4 as stated: a request that does not parse is fatal for its connection
\* only: the loop of start() is never left because of it.
C4_UnparsedRequestKeepsLoop == ~ExitedAt("BrowserRequest")

\* C5 as stated: with index.html and 404.html present, once the server has
\* responded to a well-formed request, new_client_request returns and the
\* loop goes on: start() is never left after a response was sent.
C5_LoopSurvivesWellFormedRequest ==
    ~ /\ fs["index.html"].kind = "file"
      /\ fs["404.html"].kind = "file"
      /\ pc = "exited"
      /\ _connection # NoConn
      /\ conns[_connection].sent # <<>>

\* C6 as stated: for a path with no backing file router returns status 404
\* with the text of the 404 page, and router raises for no path and no
\* document root.
C6_RouterNeverRaises ==
    /\ ~ExitedAt("router")
    /\ (Routed /\ Entry(cli_request.path).kind = "absent"
           /\ cli_request.path \notin {<<"/">>, <<"/index.html">>, <<"/index">>}
        => Answered(404, "404.html"))

C9_AliasTable ==
    fs["index.html"].kind = "file" /\ fs["404.html"].kind = "file" =>
        /\ ~ExitedAt("router")
        /\ Routed =>
              IF cli_request.path \in {<<"/">>, <<"/index.html">>, <<"/index">>}
              THEN Answered(200, "index.html")
              ELSE Answered(404, "404.html")

\* C9 witness: both files present, a path that differs from an alias only
\* in case was asked for, and router answered 404.
C9_Witness ==
    /\ pc = "respond"
    /\ fs["index.html"].kind = "file"
    /\ fs["404.html"].kind = "file"
    /\ cli_request.path = <<"/INDEX.HTML">>
    /\ status_code = 404
    /\ body = Text("404.html") /\ body # Text("index.html")

\* C10: every status code router returns is a key of STATUSES, and the
\* phrase lookup of get_header never fails in new_client_request.
C10_StatusCodeIsKnown ==
    /\ ~ExitedAt("get_header")
    /\ (status_code # 0 => status_code \in {200, 404})
    /\ (Routed => status_code \in DOMAIN STATUSES /\ header = get_header(status_code).value)

\* C10 witness: router returned 404 and get_header built the header for it.
C10_Witness ==
    /\ pc = "respond"
    /\ status_code = 404
    /\ SubSeq(header, 1, 5) = <<"HTTP/1.1", " ", "4", "0", "4">>

\* The response the outbound wire format prescribes for a status and a
\* body: status line, Content-Type line, Server line, blank line, body.
WireResponse(status, text) ==
    <<"HTTP/1.1", " ">>
        \o (IF status = 200 THEN <<"2", "0", "0", " ", "Ok">>
            ELSE <<"4", "0", "4", " ", "File", " ", "not", " ", "found">>)
        \o <<"\n">>
        \o <<"Content", "-", "Type", ":", " ", "text/html;charset=UTF", "-", "8", "\n">>
        \o <<"Server", ":", " ", "MyServer", "\n">>
        \o <<"\n">>
        \o text

\* C11: for status 200 and 404 and every body, the data passed to respond
\* is the status line "HTTP/1.1 <code> <reason>", the Content-Type line,
\* the Server line, one blank line and the body, in this order and with
\* nothing else; it is a function of (status, body) alone.
C11_ResponseLayout ==
    /\ pc = "respond" => header \o body = WireResponse(status_code, body)
    /\ pc = "log" => conns[_connection].sent = WireResponse(status_code, body)

\* C11 witness: a 404 answer with a non-empty body has been sent.
C11_Witness ==
    /\ pc = "log"
    /\ status_code = 404
    /\ body = <<"n", "\n">>
    /\ conns[_connection].sent =
          <<"HTTP/1.1", " ", "4", "0", "4", " ", "File", " ", "not", " ", "found", "\n",
            "Content", "-", "Type", ":", " ", "text/html;charset=UTF", "-", "8", "\n",
            "Server", ":", " ", "MyServer", "\n", "\n", "n", "\n">>

---------------------------------------------------------------------------
\* A caller that uses one LocaleSocket directly: it calls open, close,
\* listen and respond in any order and catches what they raise.  exc holds
\* the method called last and the exception it raised (None when it
\* returned).

\* Bytes the caller's clients send: nothing, a two-token request line, a
\* full request.
CallerData ==
    {<<>>,
     <<"GET", " ", "/", "\n", "\n">>,
     <<"GET", " ", "/", " ", "HTTP/1.1", "\r", "\n", "\r", "\n">>}

CallerInit ==
    /\ fs = [n \in FileNames |-> Absent]
    /\ _socket = None
    /\ listener = "none"
    /\ _connection = NoConn
    /\ conns = <<>>
    /\ pc = "caller"
    /\ received = <<>>
    /\ cli_request = NoRequest
    /\ body = <<>>
    /\ status_code = 0
    /\ header = <<>>
    /\ exc = NoExc

Called(method, raised) == exc' = [type |-> raised, at |-> method]

CallOpen ==
    /\ pc = "caller"
    /\ \E bind_ok \in BOOLEAN, raised \in {None, "OSError", "AssertionError"} :
          open(bind_ok, raised) /\ Called("open", raised)
    /\ UNCHANGED <<fs, pc, received, local_vars>>

CallClose ==
    /\ pc = "caller"
    /\ \E raised \in {None, "AssertionError"} :
          close(raised) /\ Called("close", raised)
    /\ UNCHANGED <<fs, pc, received, local_vars>>

CallListen ==
    /\ pc = "caller"
    /\ IF _socket = None THEN TRUE ELSE Len(conns) < MaxConns
    /\ \E data \in CallerData :
          LET r == listen_result(data)
          IN  /\ listen
              /\ Called("listen", r.exc)
              /\ received' = IF _socket = None THEN received ELSE data
              /\ cli_request' = IF r.exc = None THEN r.value ELSE cli_request
    /\ UNCHANGED <<fs, pc, body, status_code, header>>

CallRespond ==
    /\ pc = "caller"
    /\ IF _connection = NoConn THEN TRUE ELSE conns[_connection].sends < MaxSends
    /\ \E send_ok \in BOOLEAN,
          raised \in {None, "OSError", "AssertionError", "AttributeError"} :
          respond(<<"x">>, send_ok, raised) /\ Called("respond", raised)
    /\ UNCHANGED <<fs, pc, received, local_vars>>

CallerNext == CallOpen \/ CallClose \/ CallListen \/ CallRespond

CallerSpec == CallerInit /\ [][CallerNext]_vars

\* C12: in any sequence of LocaleSocket calls, open() on an open socket,
\* close() on a closed socket, and listen() or respond() on a socket that
\* is not open each fail with AssertionError and leave the listening
\* socket and the connection state unchanged.
C12_PreconditionViolations ==
    [][/\ exc'.at = "open" /\ _socket # None
          => exc'.type = "AssertionError" /\ UNCHANGED sock_vars
       /\ exc'.at = "close" /\ _socket = None
          => exc'.type = "AssertionError" /\ UNCHANGED sock_vars
       /\ exc'.at \in {"listen", "respond"} /\ _socket = None
          => exc'.type = "AssertionError" /\ UNCHANGED sock_vars]_vars

\* C12 witness: after connections were accepted and the socket was closed,
\* respond() was called and failed its assertion.
C12_Witness ==
    /\ exc = [type |-> "AssertionError", at |-> "respond"]
    /\ _socket = None
    /\ listener = "closed"
    /\ conns # <<>>

\* C13: when bind fails inside open(), the bind error is what open()
\* raises (the close() in its handler does not fail), the LocaleSocket is
\* left closed with no listening socket and no connection, and the next
\* open() is not refused.
C13_FailedBindReleasesSocket ==
    [][/\ exc'.at = "open" /\ _socket = None
          => /\ exc'.type \in {None, "OSError"}
             /\ exc'.type = None => _socket' # None /\ listener' = "open"
             /\ exc'.type = "OSError"
                => _socket' = None /\ listener' = "closed" /\ _connection' = NoConn
       /\ exc.at = "open" /\ exc.type = "OSError" /\ exc'.at = "open"
          => exc'.type # "AssertionError"]_vars

\* C13 witness: open() has failed on bind after the socket had been in
\* use, and the socket is closed.
C13_Witness ==
    /\ exc = [type |-> "OSError", at |-> "open"]
    /\ _socket = None
    /\ listener = "closed"
    /\ _connection = NoConn
    /\ conns # <<>>

---------------------------------------------------------------------------
\* Properties of request parsing and of the server's exits (under Spec)

\* listen() has been called for the bytes in received, and start() has not
\* yet gone on to the next connection.
Listened == Handling \/ (pc = "exited" /\ exc.at # "open")

\* The bytes in received were parsed into cli_request.
ParsedOk == Listened /\ ~ExitedAt("BrowserRequest")

\* The attribute name a header name on the wire is looked up by: lower
\* case, "_" for "-".
AttrName(k) == [i \in 1..Len(k) |-> IF k[i] = "-" THEN "_" ELSE lower_word(k[i])]

\* Every line after the first has the form "Name: value": exactly one ": ".
HeaderLinesOk(lines) ==
    \A i \in 2..Len(lines) : Len(split(lines[i], <<":", " ">>)) = 2

\* The tokens of a line: the pieces between runs of whitespace.
RECURSIVE split_whitespace(_)
split_whitespace(s) ==
    LET t == lstrip(s)
        n == IF \E i \in 1..Len(t) : t[i] \in Whitespace
             THEN (CHOOSE i \in 1..Len(t) :
                      /\ t[i] \in Whitespace
                      /\ \A j \in 1..(i - 1) : t[j] \notin Whitespace) - 1
             ELSE Len(t)
    IN  IF t = <<>> THEN <<>>
        ELSE <<SubSeq(t, 1, n)>> \o split_whitespace(SubSeq(t, n + 1, Len(t)))

\* C14 as stated: header names are stored normalized, so every header of a
\* parsed request, whatever the case of its name on the wire, is
\* retrievable by its normalized field name.
C14_HeaderRetrievableByNormalizedName ==
    ParsedOk =>
        \A k \in DOMAIN cli_request.info :
            /\ k = header_key(AttrName(k))
            /\ getattr(cli_request, AttrName(k)) = Return(cli_request.info[k])

\* C15 as stated: when the first non-empty line is exactly three tokens
\* separated by whitespace (one or more whitespace characters), parsing
\* succeeds and method, path and http_version are those tokens; a first
\* line with any other number of tokens is a parse error.
C15_WhitespaceSeparatedTokens ==
    Listened /\ request_lines(received) # <<>> =>
        LET lines == request_lines(received)
            tokens == split_whitespace(lines[1])
        IN  /\ Len(tokens) = 3 /\ HeaderLinesOk(lines)
               => /\ ParsedOk
                  /\ cli_request.method = tokens[1]
                  /\ cli_request.path = tokens[2]
                  /\ cli_request.http_version = tokens[3]
            /\ Len(tokens) # 3 => ExitedAt("BrowserRequest")

\* C16: in every reachable state of the server at most one accepted
\* connection is open: listen() accepts a connection only when every
\* earlier one has been closed.
C16_OneOpenConnection ==
    /\ \A c \in DOMAIN conns : conns[c].open => c = Len(conns) /\ c = _connection
    /\ Cardinality({c \in DOMAIN conns : conns[c].open}) <= 1

\* C16 witness: a second connection is open after the first was closed.
C16_Witness ==
    /\ Len(conns) = 2
    /\ ~conns[1].open
    /\ conns[2].open

\* C18 as stated: reading a header field that the request does not have
\* raises AttributeError, and no other exception type leaves the accessor.
C18_MissingFieldIsAttributeError ==
    exc.at = "getattr" => exc.type = "AttributeError"

\* C20 as stated: whenever start() has stopped running, the listening
\* socket and every connection accepted by then have been closed.
C20_ExitClosesSockets ==
    pc = "exited" =>
        /\ listener # "open"
        /\ _socket = None
        /\ \A c \in DOMAIN conns : ~conns[c].open

---------------------------------------------------------------------------
\* Properties of LocaleSocket under any sequence of calls (CallerSpec)

\* C17 as stated: after close() has returned on an open socket, whatever
\* calls came before, the listening socket is closed, every accepted
\* connection is closed, and _socket and _connection are None.
C17_CloseClosesEverything ==
    exc = [type |-> None, at |-> "close"] =>
        /\ listener = "closed"
        /\ _socket = None
        /\ _connection = NoConn
        /\ \A c \in DOMAIN conns : ~conns[c].open

\* C19 as stated: every accepted connection is closed at most once: one
\* that respond() closed is not closed again by close() or any other call.
C19_ClosedAtMostOnce ==
    \A c \in DOMAIN conns : conns[c].closes <= 1

====
